---- MODULE Spec2Model ----
(***************************************************************************)
(* Webhook receiver of src/main.go: the /health and /dynamic-hook handlers *)
(* registered on the default mux, each request served on its own goroutine *)
(* by net/http.                                                            *)
(*                                                                         *)
(* A request body is modelled by the shape of its bytes: what the first    *)
(* JSON value is, whether bytes follow it, and for an object the JSON      *)
(* tokens of the members the handler's structs name.  The members modelled *)
(* are event, data.id, data.amount, data.description, data.paid_at,        *)
(* data.notifications and data.created_at: one member of every Go type the *)
(* two structs use (int, string, any, []any, []struct, time.Time) and all  *)
(* members the handler reads.  The other members decode by the same rules. *)
(***************************************************************************)
EXTENDS Integers, Sequences, FiniteSets, TLC

\* ------------------------------------------------------------------ bounds
NumRequests == 2     \* request slots served concurrently
MaxAmount == 1       \* integer literals 0..MaxAmount appear as data.amount
MaxId == 1           \* integer literals 1..MaxId+1 appear as data.id

\* ------------------------------------------------------- program constants
StatusOK == 200
StatusInternalServerError == 500

\* ---------------------------------------------------------------- JSON tokens
\* A JSON token of a member: t is the token's JSON type as it stands in the
\* bytes, n the value of an integer literal, s the pieces of a string literal.
Tk(t, n, s) == [t |-> t, n |-> n, s |-> s]
Absent == Tk("absent", 0, <<>>)
Null == Tk("null", 0, <<>>)
IntLit(n) == Tk("int", n, <<>>)
BigLit == Tk("big", 0, <<>>)          \* integer literal outside int64
FracLit == Tk("frac", 0, <<>>)        \* number literal with fraction or exponent
StrLit(s) == Tk("str", 0, s)
TimeLit == Tk("time", 0, <<"2024-01-01T00:00:00Z">>)  \* string literal in RFC 3339 form
ArrOpaque == Tk("arr_opaque", 0, <<>>)   \* array of non-object values
ArrRecords == Tk("arr_records", 0, <<>>) \* array of {sent_at: RFC 3339, channel: string}
ArrBadRecords == Tk("arr_badrecords", 0, <<>>) \* array of objects, sent_at not RFC 3339
ArrEmpty == Tk("arr_empty", 0, <<>>)
ObjLit == Tk("obj", 0, <<>>)

PENDING == <<"paymentrequest.pending">>
SUCCESS == <<"paymentrequest.success">>
HELLO == <<"Hello from localhost:3000">>

\* ------------------------------------------------- string literals and values
\* A string literal is a sequence of pieces; a piece is plain text, a
\* character the encoder escapes, or an escape sequence of the input.
UnescapePiece(p) ==
    IF p = "\\u003c" THEN "<"
    ELSE IF p = "\\u0026" THEN "&"
    ELSE p

\* encoding/json decoding a string literal: escape sequences are replaced
Unquote(lit) == [i \in 1..Len(lit) |-> UnescapePiece(lit[i])]

\* encoding/json encoding a string with the Encoder's default SetEscapeHTML(true)
EscapePiece(p) ==
    IF p = "<" THEN "\\u003c"
    ELSE IF p = "&" THEN "\\u0026"
    ELSE p

Quote(val) == [i \in 1..Len(val) |-> EscapePiece(val[i])]
\* ------------------------------------------------------------ request bodies
\* top: what the body's bytes begin with: nothing at all ("eof"), bytes that
\* are no JSON value ("syntax"), or a first JSON value of the given type;
\* trailing: whether non-JSON bytes follow the first value after white space;
\* key: the spelling of the member holding the event token; data: the JSON
\* type of the data member.
Body(top, trailing, key, event, data, id, amount, description, paid_at, notifications, created_at) ==
    [top |-> top, trailing |-> trailing, key |-> key, event |-> event, data |-> data,
     id |-> id, amount |-> amount, description |-> description, paid_at |-> paid_at,
     notifications |-> notifications, created_at |-> created_at]

Raw(top) == Body(top, FALSE, "event", Absent, "absent", Absent, Absent, Absent, Absent, Absent, Absent)

Envelope(key, event) == Body("object", FALSE, key, event, "absent", Absent, Absent, Absent, Absent, Absent, Absent)

\* the provider's pending payload: paid_at null, notifications an opaque array
PendingBody(i, a) ==
    Body("object", FALSE, "event", StrLit(PENDING), "object", IntLit(i), IntLit(a),
         StrLit(<<"Invoice #2">>), Null, ArrOpaque, TimeLit)

\* the provider's success payload: paid_at a timestamp, notifications records
SuccessBody(i, a, d) ==
    Body("object", FALSE, "event", StrLit(SUCCESS), "object", IntLit(i), IntLit(a),
         StrLit(d), TimeLit, ArrRecords, TimeLit)

Amounts == 0..MaxAmount
Ids == 1..(MaxId + 1)
Descriptions == {<<"Invoice #2">>, <<>>, <<"a", "<", "b">>, <<"a", "\\u0026", "b">>}

\* ---------------------------------------------------------- encoding/json
\* json.Decoder.Decode into a json.RawMessage: reads the first JSON value of
\* the stream and leaves what follows it unread.
DecoderErr(b) == b.top \in {"eof", "syntax"}

FirstValue(b) == [b EXCEPT !.trailing = FALSE]

\* json.Unmarshal begins with checkValid over all of its input
ValidJSON(raw) == raw.top \notin {"eof", "syntax"} /\ ~raw.trailing

\* struct members are matched to keys without regard to case
KeyMatches(key, name) ==
    \/ key = name
    \/ (name = "event" /\ key \in {"EVENT", "Event"})

Res(err, v) == [err |-> err, v |-> v]

\* a JSON token into a Go int
DecodeInt(tok) ==
    CASE tok.t \in {"absent", "null"} -> Res(FALSE, 0)
      [] tok.t = "int" -> Res(FALSE, tok.n)
      [] OTHER -> Res(TRUE, 0)

\* a JSON token into a Go string
DecodeString(tok) ==
    CASE tok.t \in {"absent", "null"} -> Res(FALSE, <<>>)
      [] tok.t \in {"str", "time"} -> Res(FALSE, Unquote(tok.s))
      [] OTHER -> Res(TRUE, <<>>)

\* a JSON token into a time.Time (Time.UnmarshalJSON: null is a no-op)
DecodeTimeErr(tok) == tok.t \notin {"absent", "null", "time"}

\* a JSON token into an any
DecodeAnyErr(tok) == FALSE

\* a JSON token into a []any
DecodeAnySliceErr(tok) ==
    tok.t \notin {"absent", "null", "arr_empty", "arr_opaque", "arr_records", "arr_badrecords"}

\* a JSON token into a []struct{SentAt time.Time; Channel string}
DecodeNotificationsErr(tok) ==
    tok.t \notin {"absent", "null", "arr_empty", "arr_records"}

\* the token the struct member `event` receives
EventToken(raw) == IF KeyMatches(raw.key, "event") THEN raw.event ELSE Absent

\* json.Unmarshal(jsonData, &eventIdentfier)
UnmarshalEnvelope(raw) ==
    CASE ~ValidJSON(raw) -> Res(TRUE, <<>>)
      [] raw.top = "null" -> Res(FALSE, <<>>)
      [] raw.top # "object" -> Res(TRUE, <<>>)
      [] OTHER -> DecodeString(EventToken(raw))

Payment(err, event, id, amount, description) ==
    [err |-> err, Event |-> event, ID |-> id, Amount |-> amount, Description |-> description]

ZeroPayment == Payment(FALSE, <<>>, 0, 0, <<>>)

\* the members of data both structs declare alike
DataCommon(raw, paidErr, notifErr) ==
    LET ev == DecodeString(EventToken(raw))
        id == DecodeInt(raw.id)
        am == DecodeInt(raw.amount)
        de == DecodeString(raw.description)
    IN  CASE raw.data \in {"absent", "null"} -> Payment(ev.err, ev.v, 0, 0, <<>>)
          [] raw.data # "object" -> Payment(TRUE, ev.v, 0, 0, <<>>)
          [] OTHER ->
               Payment(ev.err \/ id.err \/ am.err \/ de.err \/ paidErr \/ notifErr
                          \/ DecodeTimeErr(raw.created_at),
                       ev.v, id.v, am.v, de.v)

UnmarshalTyped(raw, paidErr, notifErr) ==
    CASE ~ValidJSON(raw) -> Payment(TRUE, <<>>, 0, 0, <<>>)
      [] raw.top = "null" -> ZeroPayment
      [] raw.top # "object" -> Payment(TRUE, <<>>, 0, 0, <<>>)
      [] OTHER -> DataCommon(raw, paidErr, notifErr)

\* json.Unmarshal(jsonData, &paymentPending)
UnmarshalPending(raw) ==
    UnmarshalTyped(raw, DecodeAnyErr(raw.paid_at), DecodeAnySliceErr(raw.notifications))

\* json.Unmarshal(jsonData, &paymentSuccessful)
UnmarshalSuccessful(raw) ==
    UnmarshalTyped(raw, DecodeTimeErr(raw.paid_at), DecodeNotificationsErr(raw.notifications))

\* Encoder.Encode of a map: one document, its members in sorted key order,
\* each a key with its encoded token; the Encoder ends the document with "\n".
Member(k, tok) == [k |-> k, tok |-> tok]

Doc(members) == [members |-> members, end |-> "\n"]

\* the projection written with the id in the place of the amount
EncodePendingWithID(p) ==
    Doc(<<Member("amount", IntLit(p.ID)), Member("event type", StrLit(Quote(p.Event)))>>)

EncodePending(p) ==
    Doc(<<Member("amount", IntLit(p.Amount)), Member("event type", StrLit(Quote(p.Event)))>>)

\* the projection written with the event in the place of the description
EncodeSuccessfulSwapped(p) ==
    Doc(<<Member("description", StrLit(Quote(p.Event))),
          Member("event type", StrLit(Quote(p.Event)))>>)

EncodeSuccessful(p) ==
    Doc(<<Member("description", StrLit(Quote(p.Description))),
          Member("event type", StrLit(Quote(p.Event)))>>)

EncodeHealth == Doc(<<Member("data", StrLit(Quote(HELLO)))>>)

\* ---------------------------------------------------------------- log records
Rec(level, msg, ev, id, amount) ==
    [level |-> level, msg |-> msg, ev |-> ev, id |-> id, amount |-> amount]

Info(msg) == Rec("INFO", msg, <<>>, 0, 0)
InfoEvent(msg, ev) == Rec("INFO", msg, ev, 0, 0)
InfoPayment(msg, id, amount) == Rec("INFO", msg, <<>>, id, amount)
Error(msg) == Rec("ERROR", msg, <<>>, 0, 0)

\* ------------------------------------------------------------------- state
VARIABLES
    pc,                \* where each request's handler goroutine stands
    kind,              \* the route of the request: "health", "hook" or "none"
    body,              \* the request's body, once the handler has read it
    jsonData,          \* HandleDynamicAPI's local json.RawMessage
    eventIdentfier,    \* HandleDynamicAPI's local eventIdentfier.Event
    paymentPending,    \* HandleDynamicAPI's local paymentPending
    paymentSuccessful, \* HandleDynamicAPI's local paymentSuccessful
    header,            \* the response's Content-Type header, "" when absent
    status,            \* the response's status, 0 while no header is written
    written,           \* the documents written to the response body
    writeErr,          \* whether the ResponseWriter failed the handler's write
    logs               \* the records the request's handler gave the logger, in order

vars == <<pc, kind, body, jsonData, eventIdentfier, paymentPending, paymentSuccessful,
          header, status, written, writeErr, logs>>

Requests == 1..NumRequests

locals == <<jsonData, eventIdentfier, paymentPending, paymentSuccessful>>
response == <<header, status, written, writeErr>>

Init ==
    /\ pc = [r \in Requests |-> "idle"]
    /\ kind = [r \in Requests |-> "none"]
    /\ body = [r \in Requests |-> Raw("eof")]
    /\ jsonData = [r \in Requests |-> Raw("eof")]
    /\ eventIdentfier = [r \in Requests |-> <<>>]
    /\ paymentPending = [r \in Requests |-> ZeroPayment]
    /\ paymentSuccessful = [r \in Requests |-> ZeroPayment]
    /\ header = [r \in Requests |-> ""]
    /\ status = [r \in Requests |-> 0]
    /\ written = [r \in Requests |-> <<>>]
    /\ writeErr = [r \in Requests |-> FALSE]
    /\ logs = [r \in Requests |-> <<>>]

\* ------------------------------------------------------ net/http's response
\* ResponseWriter.Write: the first write sends the header with status 200
\* unless one was written, and with a Content-Type sniffed from the bytes
\* (JSON text sniffs as text/plain) unless the handler set one.
SniffedContentType == "text/plain; charset=utf-8"

WriteResponse(r, doc, fail) ==
    /\ writeErr' = [writeErr EXCEPT ![r] = fail]
    /\ status' = [status EXCEPT ![r] = IF @ = 0 THEN StatusOK ELSE @]
    /\ written' = [written EXCEPT ![r] = IF fail THEN @ ELSE Append(@, doc)]
    /\ header' = [header EXCEPT ![r] = IF @ = "" /\ ~fail THEN SniffedContentType ELSE @]

Log(r, rec) == logs' = [logs EXCEPT ![r] = Append(@, rec)]
Goto(r, l) == pc' = [pc EXCEPT ![r] = l]

\* locals declared outside the function literal: one cell for all requests
SharedCell(r) == 1

\* The handler's locals are declared inside the function literal that serves
\* one request: every request has cells of its own.
Cell(r) == r

\* --------------------------------------------------------------- the server
\* net/http accepts a request and routes it by path; the method plays no part.
Accept(r) ==
    /\ pc[r] = "idle"
    /\ \E k \in {"health", "hook"} :
          /\ kind' = [kind EXCEPT ![r] = k]
          /\ Goto(r, IF k = "health" THEN "h_encode" ELSE "d_info")
    /\ UNCHANGED <<body, locals, response, logs>>

\* the handler has returned: the server completes the response, with status
\* 200 when the handler wrote no header
Finish(r) ==
    /\ pc[r] = "ret"
    /\ status' = [status EXCEPT ![r] = IF @ = 0 THEN StatusOK ELSE @]
    /\ Goto(r, "done")
    /\ UNCHANGED <<kind, body, locals, header, written, writeErr, logs>>

\* the connection serves its next request: nothing of the last one is kept
Recycle(r) ==
    /\ pc[r] = "done"
    /\ Goto(r, "idle")
    /\ kind' = [kind EXCEPT ![r] = "none"]
    /\ body' = [body EXCEPT ![r] = Raw("eof")]
    /\ jsonData' = [jsonData EXCEPT ![r] = Raw("eof")]
    /\ eventIdentfier' = [eventIdentfier EXCEPT ![r] = <<>>]
    /\ paymentPending' = [paymentPending EXCEPT ![r] = ZeroPayment]
    /\ paymentSuccessful' = [paymentSuccessful EXCEPT ![r] = ZeroPayment]
    /\ header' = [header EXCEPT ![r] = ""]
    /\ status' = [status EXCEPT ![r] = 0]
    /\ written' = [written EXCEPT ![r] = <<>>]
    /\ writeErr' = [writeErr EXCEPT ![r] = FALSE]
    /\ logs' = [logs EXCEPT ![r] = <<>>]

\* -------------------------------------------------------------- HealthCheck
HealthCheck(r) ==
    /\ pc[r] = "h_encode"
    /\ \E fail \in BOOLEAN :
          /\ WriteResponse(r, EncodeHealth, fail)
          /\ IF fail
                THEN Log(r, Error("error encoding data to send as response"))
                ELSE UNCHANGED logs
    /\ Goto(r, "ret")
    /\ UNCHANGED <<kind, body, locals>>

\* --------------------------------------------------------- HandleDynamicAPI
Connected(r) ==
    /\ pc[r] = "d_info"
    /\ Log(r, Info("This API is connected"))
    /\ Goto(r, "d_decode")
    /\ UNCHANGED <<kind, body, locals, response>>

DecodeBody(r, bodies) ==
    /\ pc[r] = "d_decode"
    /\ \E b \in bodies :
          /\ body' = [body EXCEPT ![r] = b]
          /\ IF DecoderErr(b)
                THEN /\ Log(r, Error("error decoding json response"))
                     /\ Goto(r, "ret")
                     /\ UNCHANGED jsonData
                ELSE /\ jsonData' = [jsonData EXCEPT ![Cell(r)] = FirstValue(b)]
                     /\ Goto(r, "d_envelope")
                     /\ UNCHANGED logs
    /\ UNCHANGED <<kind, eventIdentfier, paymentPending, paymentSuccessful, response>>

UnmarshalIdentifier(r) ==
    /\ pc[r] = "d_envelope"
    /\ LET e == UnmarshalEnvelope(jsonData[Cell(r)])
       IN  IF e.err
              THEN /\ Log(r, Error("error unmarshalling json data message"))
                   /\ Goto(r, "ret")
                   /\ UNCHANGED eventIdentfier
              ELSE /\ eventIdentfier' = [eventIdentfier EXCEPT ![Cell(r)] = e.v]
                   /\ Goto(r, "d_switch")
                   /\ UNCHANGED logs
    /\ UNCHANGED <<kind, body, jsonData, paymentPending, paymentSuccessful, response>>

CasePending(r) ==
    /\ pc[r] = "d_switch"
    /\ eventIdentfier[Cell(r)] = PENDING
    /\ Log(r, InfoEvent("payment pending hook event", eventIdentfier[Cell(r)]))
    /\ Goto(r, "p_unmarshal")
    /\ UNCHANGED <<kind, body, locals, response>>

CaseSuccess(r) ==
    /\ pc[r] = "d_switch"
    /\ eventIdentfier[Cell(r)] = SUCCESS
    /\ Log(r, InfoEvent("payment successful hook event", eventIdentfier[Cell(r)]))
    /\ Goto(r, "s_unmarshal")
    /\ UNCHANGED <<kind, body, locals, response>>

CaseDefault(r) ==
    /\ pc[r] = "d_switch"
    /\ eventIdentfier[Cell(r)] \notin {PENDING, SUCCESS}
    /\ Log(r, InfoEvent("no event type found", eventIdentfier[Cell(r)]))
    /\ Goto(r, "u_status")
    /\ UNCHANGED <<kind, body, locals, response>>

PendingUnmarshal(r) ==
    /\ pc[r] = "p_unmarshal"
    /\ LET p == UnmarshalPending(jsonData[Cell(r)])
       IN  /\ paymentPending' = [paymentPending EXCEPT ![Cell(r)] = p]
           /\ IF p.err
                 THEN /\ Log(r, Error("error marshalling pending payment data"))
                      /\ Goto(r, "ret")
                 ELSE /\ Goto(r, "p_header")
                      /\ UNCHANGED logs
    /\ UNCHANGED <<kind, body, jsonData, eventIdentfier, paymentSuccessful, response>>

\* the pending branch without its w.Header().Add
PendingHeaderOmitted(r) ==
    /\ pc[r] = "p_header"
    /\ Goto(r, "p_encode")
    /\ UNCHANGED <<kind, body, locals, response, logs>>

PendingHeader(r) ==
    /\ pc[r] = "p_header"
    /\ header' = [header EXCEPT ![r] = "application/json"]
    /\ Goto(r, "p_encode")
    /\ UNCHANGED <<kind, body, locals, status, written, writeErr, logs>>

PendingEncode(r) ==
    /\ pc[r] = "p_encode"
    /\ \E fail \in BOOLEAN :
          /\ WriteResponse(r, EncodePending(paymentPending[Cell(r)]), fail)
          /\ IF fail
                THEN /\ Log(r, Error("error encoding data to send as response"))
                     /\ Goto(r, "ret")
                ELSE /\ Goto(r, "p_log")
                     /\ UNCHANGED logs
    /\ UNCHANGED <<kind, body, locals>>

\* the pending branch's record with its two attributes exchanged
PendingLogSwapped(r) ==
    /\ pc[r] = "p_log"
    /\ Log(r, InfoPayment("pending response data unmarshalled successfully",
                          paymentPending[r].Amount, paymentPending[r].ID))
    /\ Goto(r, "ret")
    /\ UNCHANGED <<kind, body, locals, response>>

PendingLog(r) ==
    /\ pc[r] = "p_log"
    /\ Log(r, InfoPayment("pending response data unmarshalled successfully",
                          paymentPending[Cell(r)].ID, paymentPending[Cell(r)].Amount))
    /\ Goto(r, "ret")
    /\ UNCHANGED <<kind, body, locals, response>>

\* the success branch without the return of its error check
SuccessUnmarshalIgnoringErr(r) ==
    /\ pc[r] = "s_unmarshal"
    /\ LET p == UnmarshalSuccessful(jsonData[r])
       IN  /\ paymentSuccessful' = [paymentSuccessful EXCEPT ![r] = p]
           /\ IF p.err
                 THEN Log(r, Error("error marshalling successful payment data"))
                 ELSE UNCHANGED logs
           /\ Goto(r, "s_header")
    /\ UNCHANGED <<kind, body, jsonData, eventIdentfier, paymentPending, response>>

SuccessUnmarshal(r) ==
    /\ pc[r] = "s_unmarshal"
    /\ LET p == UnmarshalSuccessful(jsonData[Cell(r)])
       IN  /\ paymentSuccessful' = [paymentSuccessful EXCEPT ![Cell(r)] = p]
           /\ IF p.err
                 THEN /\ Log(r, Error("error marshalling successful payment data"))
                      /\ Goto(r, "ret")
                 ELSE /\ Goto(r, "s_header")
                      /\ UNCHANGED logs
    /\ UNCHANGED <<kind, body, jsonData, eventIdentfier, paymentPending, response>>

SuccessHeader(r) ==
    /\ pc[r] = "s_header"
    /\ header' = [header EXCEPT ![r] = "application/json"]
    /\ Goto(r, "s_encode")
    /\ UNCHANGED <<kind, body, locals, status, written, writeErr, logs>>

\* the success branch returns on an encoding error without a log record
SuccessEncode(r) ==
    /\ pc[r] = "s_encode"
    /\ \E fail \in BOOLEAN :
          /\ WriteResponse(r, EncodeSuccessful(paymentSuccessful[Cell(r)]), fail)
          /\ Goto(r, IF fail THEN "ret" ELSE "s_log")
    /\ UNCHANGED <<kind, body, locals, logs>>

SuccessLog(r) ==
    /\ pc[r] = "s_log"
    /\ Log(r, InfoPayment("success response data unmarshalled successfully",
                          paymentSuccessful[Cell(r)].ID, paymentSuccessful[Cell(r)].Amount))
    /\ Goto(r, "ret")
    /\ UNCHANGED <<kind, body, locals, response>>

\* the default case without its w.WriteHeader
DefaultStatusOmitted(r) ==
    /\ pc[r] = "u_status"
    /\ Goto(r, "ret")
    /\ UNCHANGED <<kind, body, locals, response, logs>>

\* w.WriteHeader(http.StatusInternalServerError)
DefaultStatus(r) ==
    /\ pc[r] = "u_status"
    /\ status' = [status EXCEPT ![r] = IF @ = 0 THEN StatusInternalServerError ELSE @]
    /\ Goto(r, "ret")
    /\ UNCHANGED <<kind, body, locals, header, written, writeErr, logs>>
\* ------------------------------------------------------------ the body sets
UnknownEnvelope == Envelope("event", StrLit(<<"unknown.kind">>))

With(b, member, tok) == [b EXCEPT ![member] = tok]
\* a data member that is no object has no members
WithData(b, t) ==
    [b EXCEPT !.data = t, !.id = Absent, !.amount = Absent, !.description = Absent,
              !.paid_at = Absent, !.notifications = Absent, !.created_at = Absent]
Trailing(b) == [b EXCEPT !.trailing = TRUE]

NotJSONBodies == {Raw("eof"), Raw("syntax")}

NonObjectBodies == {Raw("null"), Raw("array"), Raw("string")}

TrailingBodies == {Trailing(PendingBody(1, 0)), Trailing(UnknownEnvelope), Trailing(Raw("null"))}

EnvelopeBodies ==
    {Envelope("event", e) : e \in {Absent, Null, StrLit(<<>>), StrLit(<<"unknown.kind">>),
                                     StrLit(PENDING), StrLit(SUCCESS), IntLit(5), ObjLit}}
    \cup {Envelope("kind", StrLit(PENDING)), Envelope("EVENT", StrLit(PENDING)),
          With(PendingBody(1, 0), "event", StrLit(<<"unknown.kind">>))}

PendingBodies ==
    {PendingBody(i, a) : i \in Ids, a \in Amounts}
    \cup {With(PendingBody(1, 1), "amount", t) : t \in {StrLit(<<"5000">>), FracLit, BigLit, Null, Absent}}
    \cup {With(PendingBody(1, 1), "id", StrLit(<<"1">>)),
          With(PendingBody(1, 1), "description", IntLit(7)),
          With(PendingBody(1, 1), "description", StrLit(<<"a", "<", "b">>))}
    \cup {With(PendingBody(1, 1), "paid_at", t) : t \in {TimeLit, IntLit(5)}}
    \cup {With(PendingBody(1, 1), "notifications", t) : t \in {ArrRecords, Absent, StrLit(<<"none">>)}}
    \cup {With(PendingBody(1, 1), "created_at", t) : t \in {StrLit(<<"yesterday">>), Null}}
    \cup {WithData(PendingBody(1, 1), t) : t \in {"null", "number"}}

SuccessBodies ==
    {SuccessBody(i, a, <<"Invoice #2">>) : i \in Ids, a \in Amounts}
    \cup {SuccessBody(1, 0, d) : d \in Descriptions}
    \cup {With(SuccessBody(1, 1, <<"Invoice #2">>), "description", t) : t \in {IntLit(7), Null}}
    \cup {With(SuccessBody(1, 1, <<"Invoice #2">>), "paid_at", t) :
             t \in {Null, Absent, StrLit(<<"yesterday">>), IntLit(5)}}
    \cup {With(SuccessBody(1, 1, <<"Invoice #2">>), "notifications", t) :
             t \in {ArrOpaque, ArrBadRecords, ArrEmpty, Null, StrLit(<<"none">>)}}
    \cup {With(SuccessBody(1, 1, <<"Invoice #2">>), "amount", StrLit(<<"5000">>)),
          With(SuccessBody(1, 1, <<"Invoice #2">>), "created_at", StrLit(<<"yesterday">>))}
    \cup {WithData(SuccessBody(1, 1, <<"Invoice #2">>), t) : t \in {"null", "number"}}

Bodies ==
    NotJSONBodies \cup NonObjectBodies \cup TrailingBodies \cup EnvelopeBodies
        \cup PendingBodies \cup SuccessBodies

\* the bodies of the requests served concurrently: one of every outcome, and
\* two of each recognized kind that differ in every member the handler reads
ConcurrentBodies ==
    {Raw("syntax"), UnknownEnvelope, Envelope("event", IntLit(5)),
     PendingBody(1, 0), PendingBody(2, 1),
     With(PendingBody(1, 1), "amount", StrLit(<<"5000">>)),
     SuccessBody(1, 0, <<"Invoice #2">>), SuccessBody(2, 1, <<"a", "<", "b">>),
     With(SuccessBody(1, 1, <<"Invoice #2">>), "paid_at", StrLit(<<"yesterday">>))}

\* ------------------------------------------------------- the specifications
Handler(r, bodies) ==
    \/ Accept(r)
    \/ HealthCheck(r)
    \/ Connected(r)
    \/ DecodeBody(r, bodies)
    \/ UnmarshalIdentifier(r)
    \/ CasePending(r)
    \/ CaseSuccess(r)
    \/ CaseDefault(r)
    \/ PendingUnmarshal(r)
    \/ PendingHeader(r)
    \/ PendingEncode(r)
    \/ PendingLog(r)
    \/ SuccessUnmarshal(r)
    \/ SuccessHeader(r)
    \/ SuccessEncode(r)
    \/ SuccessLog(r)
    \/ DefaultStatus(r)
    \/ Finish(r)
    \/ Recycle(r)

\* one connection, its requests served one after another, any body
Next == Handler(1, Bodies)

Spec == Init /\ [][Next]_vars

\* NumRequests connections, their requests served concurrently
NextConcurrent == \E r \in Requests : Handler(r, ConcurrentBodies)

SpecConcurrent == Init /\ [][NextConcurrent]_vars
\* =================================================================== claims
Done(r) == pc[r] = "done"
Hook(r) == kind[r] = "hook"
Health(r) == kind[r] = "health"

Has(seq, x) == \E i \in DOMAIN seq : seq[i] = x

\* reading a response document back
Keys(doc) == {doc.members[i].k : i \in DOMAIN doc.members}
TokenOf(doc, k) == doc.members[CHOOSE i \in DOMAIN doc.members : doc.members[i].k = k].tok
StringOf(doc, k) == IF TokenOf(doc, k).t = "str" THEN Unquote(TokenOf(doc, k).s) ELSE <<"?">>
IntOf(doc, k) == IF TokenOf(doc, k).t = "int" THEN TokenOf(doc, k).n ELSE -1

\* the payload shapes of the data model: every member present with its type
ValidCommon(b, event) ==
    /\ b.top = "object" /\ ~b.trailing
    /\ b.key = "event" /\ b.event = StrLit(event)
    /\ b.data = "object"
    /\ b.id.t = "int" /\ b.amount.t = "int"
    /\ b.description.t = "str"
    /\ b.created_at.t = "time"

ValidPending(b) ==
    /\ ValidCommon(b, PENDING)
    /\ b.notifications.t \in {"arr_empty", "arr_opaque", "arr_records", "arr_badrecords"}

ValidSuccess(b) ==
    /\ ValidCommon(b, SUCCESS)
    /\ b.paid_at.t = "time"
    /\ b.notifications.t \in {"arr_empty", "arr_records"}

\* C1: a request whose body is a valid pending payload P ends with status 200
\* and, the transport having taken the write, with the one document
\* {"event type": P.event, "amount": P.data.amount}, the event type being the
\* discriminator the envelope step read; nothing else is ever written.
C1_PendingProjection ==
    \A r \in Requests :
        (Done(r) /\ Hook(r) /\ ValidPending(body[r])) =>
            /\ status[r] = StatusOK
            /\ IF writeErr[r]
                  THEN written[r] = <<>>
                  ELSE /\ Len(written[r]) = 1
                       /\ Keys(written[r][1]) = {"event type", "amount"}
                       /\ StringOf(written[r][1], "event type") = Unquote(body[r].event.s)
                       /\ StringOf(written[r][1], "event type") = eventIdentfier[r]
                       /\ IntOf(written[r][1], "amount") = body[r].amount.n

C1_Witness ==
    \E r \in Requests :
        /\ Done(r) /\ Hook(r) /\ ValidPending(body[r]) /\ ~writeErr[r]
        /\ Len(written[r]) = 1
        /\ body[r].amount.n # body[r].id.n

\* C2: a request whose body is a valid success payload P ends with status 200
\* and, the transport having taken the write, with the one document
\* {"event type": P.event, "description": P.data.description}, which has no
\* amount member.
C2_SuccessProjection ==
    \A r \in Requests :
        (Done(r) /\ Hook(r) /\ ValidSuccess(body[r])) =>
            /\ status[r] = StatusOK
            /\ IF writeErr[r]
                  THEN written[r] = <<>>
                  ELSE /\ Len(written[r]) = 1
                       /\ Keys(written[r][1]) = {"event type", "description"}
                       /\ StringOf(written[r][1], "event type") = Unquote(body[r].event.s)
                       /\ StringOf(written[r][1], "description") = Unquote(body[r].description.s)

C2_Witness ==
    \E r \in Requests :
        /\ Done(r) /\ Hook(r) /\ ValidSuccess(body[r]) /\ ~writeErr[r]
        /\ Len(written[r]) = 1
        /\ body[r].description.s = <<"a", "\\u0026", "b">>
\* ---- the envelope, as the bytes show it
KindMsgs == {"payment pending hook event", "payment successful hook event", "no event type found"}
PaymentMsgs == {"pending response data unmarshalled successfully",
                "success response data unmarshalled successfully"}

KindRecords(r) == {i \in DOMAIN logs[r] : logs[r][i].msg \in KindMsgs}
PaymentRecords(r) == {i \in DOMAIN logs[r] : logs[r][i].msg \in PaymentMsgs}
ErrorRecords(r) == {i \in DOMAIN logs[r] : logs[r][i].level = "ERROR"}

\* the first value of the body is JSON
FirstValueIsJSON(b) == b.top \notin {"eof", "syntax"}

\* the member the decoder takes for `event`: keys match in any case
Discriminator(b) ==
    IF b.top = "object" /\ b.key \in {"event", "Event", "EVENT"} THEN b.event ELSE Absent

\* the envelope decodes: the value is an object or null, and its event member
\* is absent, null or a string
EnvelopeDecodes(b) ==
    /\ b.top \in {"object", "null"}
    /\ Discriminator(b).t \in {"absent", "null", "str", "time"}

DiscriminatorValue(b) ==
    IF Discriminator(b).t \in {"str", "time"} THEN Unquote(Discriminator(b).s) ELSE <<>>

\* the claim's reading: the member named event is not one of the two strings
EventMemberUnknown(b) ==
    \/ b.key # "event"
    \/ b.event \notin {StrLit(PENDING), StrLit(SUCCESS)}

\* C3 as stated: every JSON payload whose event member is not one of the two
\* known strings (absent, empty, not a string) ends with status 500 and an
\* empty body.
C3_Original ==
    \A r \in Requests :
        (Done(r) /\ Hook(r) /\ FirstValueIsJSON(body[r]) /\ body[r].top = "object"
            /\ EventMemberUnknown(body[r])) =>
            (status[r] = StatusInternalServerError /\ written[r] = <<>>)

\* C3 amended: a payload whose envelope decodes (an object or null whose event
\* member, matched in any case, is absent, null or a string) to a value other
\* than the two known strings ends with status 500, an empty body and no
\* Content-Type; a payload whose envelope does not decode (an event member of
\* another JSON type, a top-level array, string or number) ends with an error
\* record, no event-kind record, no explicit status (200) and an empty body.
C3_UnrecognizedEvent ==
    \A r \in Requests :
        (Done(r) /\ Hook(r) /\ FirstValueIsJSON(body[r])) =>
            /\ (EnvelopeDecodes(body[r]) /\ DiscriminatorValue(body[r]) \notin {PENDING, SUCCESS}) =>
                  /\ status[r] = StatusInternalServerError
                  /\ written[r] = <<>>
                  /\ header[r] = ""
            /\ ~EnvelopeDecodes(body[r]) =>
                  /\ status[r] = StatusOK
                  /\ written[r] = <<>>
                  /\ header[r] = ""
                  /\ Has(logs[r], Error("error unmarshalling json data message"))
                  /\ KindRecords(r) = {}

C3_Witness ==
    \E r \in Requests :
        /\ Done(r) /\ Hook(r)
        /\ body[r].top = "object" /\ body[r].event = StrLit(<<"unknown.kind">>)
        /\ status[r] = StatusInternalServerError

\* C4: a body that is not valid JSON (nothing at all, bytes that are no JSON,
\* or a JSON value with non-JSON bytes after it) ends as a malformed payload:
\* the decoding error is logged, no body is written, the switch is not reached
\* and status 500 is not written.
NotValidJSON(b) == ~FirstValueIsJSON(b) \/ b.trailing

C4_MalformedPayload ==
    \A r \in Requests :
        (Done(r) /\ Hook(r) /\ NotValidJSON(body[r])) =>
            /\ Has(logs[r], Error("error decoding json response"))
            /\ written[r] = <<>>
            /\ KindRecords(r) = {}
            /\ status[r] # StatusInternalServerError
\* ---- C5: schema mismatch
\* the handler took a recognized case of the switch
TookPending(r) == Has(logs[r], InfoEvent("payment pending hook event", PENDING))
TookSuccess(r) == Has(logs[r], InfoEvent("payment successful hook event", SUCCESS))

\* the bodies the claim names as not decoding into the kind's schema:
\* data.amount a string, or paid_at of a success event null or no timestamp
NamedMismatch(b) ==
    /\ b.data = "object"
    /\ \/ b.amount.t = "str"
       \/ DiscriminatorValue(b) = SUCCESS /\ b.paid_at.t \notin {"absent", "time"}

\* what the handler leaves of a request that failed its typed decode
MismatchOutcome(r) ==
    /\ logs[r][Len(logs[r])] =
          IF TookPending(r) THEN Error("error marshalling pending payment data")
                            ELSE Error("error marshalling successful payment data")
    /\ written[r] = <<>>
    /\ header[r] = ""
    /\ status[r] = StatusOK
    /\ PaymentRecords(r) = {}

Mismatched(tok, types) == tok.t \notin ({"absent", "null"} \cup types)

Arrays == {"arr_empty", "arr_opaque", "arr_records", "arr_badrecords"}

TypeMismatch(b) ==
    \/ b.data = "number"
    \/ /\ b.data = "object"
       /\ \/ Mismatched(b.id, {"int"})
          \/ Mismatched(b.amount, {"int"})
          \/ Mismatched(b.description, {"str", "time"})
          \/ Mismatched(b.created_at, {"time"})
          \/ IF DiscriminatorValue(b) = PENDING
                THEN Mismatched(b.notifications, Arrays)
                ELSE \/ Mismatched(b.paid_at, {"time"})
                     \/ Mismatched(b.notifications, {"arr_empty", "arr_records"})

TypedDecodeSucceeded(r) ==
    \/ TookPending(r) /\ pc[r] \notin {"p_unmarshal"} /\ ~paymentPending[r].err
    \/ TookSuccess(r) /\ pc[r] \notin {"s_unmarshal"} /\ ~paymentSuccessful[r].err

\* C6: of a /dynamic-hook request, Content-Type: application/json is set if
\* and only if the typed decode of a recognized branch succeeded; on the other
\* paths the header is absent; and a body byte is only ever written with the
\* header already set.
C6_ContentType ==
    \A r \in Requests :
        Hook(r) =>
            /\ header[r] \in {"", "application/json"}
            /\ pc[r] \in {"ret", "done"} =>
                  (header[r] = "application/json" <=> TypedDecodeSucceeded(r))
            /\ header[r] = "application/json" => TypedDecodeSucceeded(r)
            /\ (written[r] # <<>> \/ (status[r] = StatusOK /\ pc[r] # "done")) =>
                  header[r] = "application/json"

C6_Witness ==
    \E r \in Requests :
        /\ Hook(r) /\ Done(r) /\ TookPending(r)
        /\ header[r] = "application/json" /\ written[r] # <<>>

\* ---- C7: the health endpoint
\* C7: every /health call, whatever runs beside it, ends with status 200 and,
\* the transport having taken the write, the one document
\* {"data":"Hello from localhost:3000"} with Content-Type application/json.
C7_Health ==
    \A r \in Requests :
        (Done(r) /\ Health(r)) =>
            /\ status[r] = StatusOK
            /\ ~writeErr[r] =>
                  /\ written[r] = <<EncodeHealth>>
                  /\ header[r] = "application/json"

\* ---- C8: response encoding errors
\* C8: in every handler a failed response write leaves an error record as the
\* handler's last, no success record, and the status of the branch.
C8_EncodeError ==
    \A r \in Requests :
        (Done(r) /\ writeErr[r]) =>
            /\ logs[r] # <<>>
            /\ logs[r][Len(logs[r])] = Error("error encoding data to send as response")
            /\ PaymentRecords(r) = {}
            /\ status[r] = StatusOK
\* ---- C9: independence of concurrent requests
Outcome(st, hd, wr) == [status |-> st, header |-> hd, written |-> wr]

\* the response of a /health request served alone
AloneHealth(fail) ==
    IF fail THEN Outcome(StatusOK, "", <<>>)
            ELSE Outcome(StatusOK, SniffedContentType, <<EncodeHealth>>)

Projected(fail, doc) ==
    Outcome(StatusOK, "application/json", IF fail THEN <<>> ELSE <<doc>>)

\* the response of a /dynamic-hook request served alone
AloneHook(b, fail) ==
    LET raw == FirstValue(b)
        e == UnmarshalEnvelope(raw)
    IN  CASE DecoderErr(b) \/ e.err -> Outcome(StatusOK, "", <<>>)
          [] e.v = PENDING ->
               IF UnmarshalPending(raw).err THEN Outcome(StatusOK, "", <<>>)
               ELSE Projected(fail, EncodePending(UnmarshalPending(raw)))
          [] e.v = SUCCESS ->
               IF UnmarshalSuccessful(raw).err THEN Outcome(StatusOK, "", <<>>)
               ELSE Projected(fail, EncodeSuccessful(UnmarshalSuccessful(raw)))
          [] OTHER -> Outcome(StatusInternalServerError, "", <<>>)

Alone(k, b, fail) == IF k = "health" THEN AloneHealth(fail) ELSE AloneHook(b, fail)

Response(r) == Outcome(status[r], header[r], written[r])

\* C9: under any interleaving, the response of a completed request (status,
\* Content-Type, body) is the response the same request, with the same body
\* and the same fate of its write, gets when served alone; two requests alike
\* in these get the same response, whatever became of the requests beside them.
C9_Independent ==
    \A r \in Requests :
        Done(r) =>
            /\ Response(r) = Alone(kind[r], body[r], writeErr[r])
            /\ \A q \in Requests :
                  (Done(q) /\ kind[q] = kind[r] /\ body[q] = body[r] /\ writeErr[q] = writeErr[r]) =>
                      Response(q) = Response(r)

C9_Witness ==
    \E r \in Requests, q \in Requests :
        /\ r # q
        /\ Done(r) /\ Hook(r) /\ written[r] # <<>> /\ TookPending(r)
        /\ Done(q) /\ Hook(q) /\ body[q] # body[r] /\ ErrorRecords(q) # {}

\* ---- C10: the log records
EnvelopeDecoded(r) ==
    /\ pc[r] \notin {"idle", "d_info", "d_decode", "d_envelope"}
    /\ ~Has(logs[r], Error("error decoding json response"))
    /\ ~Has(logs[r], Error("error unmarshalling json data message"))

KindMsg(ev) ==
    IF ev = PENDING THEN "payment pending hook event"
    ELSE IF ev = SUCCESS THEN "payment successful hook event"
    ELSE "no event type found"

\* the typed decode or a response write has begun
Proceeded(r) ==
    \/ pc[r] \in {"p_header", "p_encode", "p_log", "s_header", "s_encode", "s_log"}
    \/ (status[r] # 0 /\ pc[r] # "done") \/ status[r] = StatusInternalServerError
    \/ header[r] # "" \/ written[r] # <<>>
    \/ paymentPending[r] # ZeroPayment \/ paymentSuccessful[r] # ZeroPayment

\* C10: a /dynamic-hook request whose envelope decoded has by its end exactly
\* one event-kind record, of its own kind and event, and has it before the
\* typed decode and before anything of the response is written; a success
\* record is the last record of a recognized branch, follows a response body
\* the transport took, and carries the id and amount of the request's own body.
C10_LogRecords ==
    \A r \in Requests :
        Hook(r) =>
            /\ (Done(r) /\ EnvelopeDecoded(r)) => Cardinality(KindRecords(r)) = 1
            /\ Proceeded(r) => Cardinality(KindRecords(r)) = 1
            /\ \A i \in KindRecords(r) :
                  /\ i = 2
                  /\ logs[r][i] = InfoEvent(KindMsg(eventIdentfier[r]), eventIdentfier[r])
                  /\ eventIdentfier[r] = DiscriminatorValue(body[r])
            /\ ~EnvelopeDecoded(r) => KindRecords(r) = {}
            /\ \A i \in PaymentRecords(r) :
                  /\ i = Len(logs[r]) /\ i = 3
                  /\ TookPending(r) \/ TookSuccess(r)
                  /\ logs[r][i].msg =
                        IF TookPending(r) THEN "pending response data unmarshalled successfully"
                        ELSE "success response data unmarshalled successfully"
                  /\ Len(written[r]) = 1 /\ ~writeErr[r]
                  /\ logs[r][i].id = DecodeInt(body[r].id).v
                  /\ logs[r][i].amount = DecodeInt(body[r].amount).v
                  /\ body[r].data = "object" => logs[r][i].amount = body[r].amount.n

C10_Witness ==
    \E r \in Requests :
        /\ Hook(r) /\ Done(r) /\ TookPending(r)
        /\ PaymentRecords(r) # {}
        /\ body[r].id.n # body[r].amount.n
====
